---- MODULE Spec2Model ----
(***************************************************************************)
(* Model of fabrefchecker-v1.0.py: the text pre-processing helpers         *)
(* (remove_heading, normalize_text, split_references), the DOI extractor,  *)
(* the fuzzy title matcher and the reference-processing loop.              *)
(*                                                                         *)
(* A Python str is a sequence of one-character strings.  The run that is   *)
(* modelled is the one started by "Check Pasted References"; the DOCX      *)
(* upload branch and the percentages of the report are left out.  A run    *)
(* ends at its summary, at st.stop(), or where an exception leaves the     *)
(* script ("aborted").                                                     *)
(***************************************************************************)
EXTENDS Integers, Sequences, FiniteSets, TLC

----------------------------------------------------------------------------
(* Character classes of Python's re module, restricted to ASCII.           *)

UpperSeq == <<"A","B","C","D","E","F","G","H","I","J","K","L","M",
              "N","O","P","Q","R","S","T","U","V","W","X","Y","Z">>
LowerSeq == <<"a","b","c","d","e","f","g","h","i","j","k","l","m",
              "n","o","p","q","r","s","t","u","v","w","x","y","z">>
Upper == {UpperSeq[i] : i \in 1..26}
Lower == {LowerSeq[i] : i \in 1..26}
Digit == {"0","1","2","3","4","5","6","7","8","9"}
AlNum == Upper \cup Lower \cup Digit
\* \s
WS == {" ", "\t", "\n", "\r", "\f"}
\* \w
Word == AlNum \cup {"_"}

\* str.lower() on one character
lower(c) == IF c \in Upper THEN LowerSeq[CHOOSE i \in 1..26 : UpperSeq[i] = c] ELSE c

lower_str(s) == [i \in 1..Len(s) |-> lower(s[i])]

Max(S) == CHOOSE x \in S : \A y \in S : y <= x
Min(S) == CHOOSE x \in S : \A y \in S : x <= y

\* s[a:] in 1-based positions
From(s, a) == SubSeq(s, a, Len(s))

RECURSIVE rstrip_chars(_, _)
rstrip_chars(s, chars) ==
    IF s # <<>> /\ s[Len(s)] \in chars
    THEN rstrip_chars(SubSeq(s, 1, Len(s) - 1), chars)
    ELSE s

RECURSIVE lstrip_chars(_, _)
lstrip_chars(s, chars) ==
    IF s # <<>> /\ s[1] \in chars
    THEN lstrip_chars(Tail(s), chars)
    ELSE s

\* str.rstrip() and str.strip() without argument
rstrip(s) == rstrip_chars(s, WS)
strip(s) == lstrip_chars(rstrip_chars(s, WS), WS)

\* str.split(sep) for a one-character separator
RECURSIVE split(_, _)
split(s, sep) ==
    IF \E i \in 1..Len(s) : s[i] = sep
    THEN LET i == Min({k \in 1..Len(s) : s[k] = sep})
         IN  <<SubSeq(s, 1, i - 1)>> \o split(From(s, i + 1), sep)
    ELSE <<s>>

\* sep.join(parts)
RECURSIVE join(_, _)
join(parts, sep) ==
    IF parts = <<>> THEN <<>>
    ELSE IF Len(parts) = 1 THEN parts[1]
    ELSE parts[1] \o sep \o join(Tail(parts), sep)

\* first position >= p that does not hold a character of S (Len(s)+1 if none)
RunEnd(s, p, S) ==
    Min({k \in p..(Len(s) + 1) : k = Len(s) + 1 \/ s[k] \notin S})

\* ^ and $ under re.MULTILINE, at position p (the gap before s[p])
AtLineStart(s, p) == p = 1 \/ s[p - 1] = "\n"
AtLineEnd(s, p) == p = Len(s) + 1 \/ s[p] = "\n"

\* the literal lit occurs at position p of s
LitAt(s, p, lit) ==
    /\ p + Len(lit) - 1 <= Len(s)
    /\ \A k \in 1..Len(lit) : s[p + k - 1] = lit[k]

\* the literal lit occurs at position p of s, ignoring case
LitAtCI(s, p, lit) ==
    /\ p + Len(lit) - 1 <= Len(s)
    /\ \A k \in 1..Len(lit) : lower(s[p + k - 1]) = lower(lit[k])

----------------------------------------------------------------------------
(* normalize_text                                                          *)

\* raw.replace('\r\n', '\n'), one occurrence per step
RECURSIVE replace_crlf(_)
replace_crlf(s) ==
    LET occ == {i \in 1..Len(s) : LitAt(s, i, <<"\r", "\n">>)}
    IN  IF occ = {} THEN s
        ELSE SubSeq(s, 1, Min(occ) - 1) \o <<"\n">> \o replace_crlf(From(s, Min(occ) + 2))

\* .replace('\r', '\n')
replace_cr(s) == [i \in 1..Len(s) |-> IF s[i] = "\r" THEN "\n" ELSE s[i]]

SentencePunct == {".", "?", "!", ";", ":"}

\* re.search(r'[A-Za-z0-9][\.\?\!;:]?\s*$', stripped)
LooksTerminated(s) ==
    \E i \in 1..Len(s) :
        /\ s[i] \in AlNum
        /\ \/ RunEnd(s, i + 1, WS) = Len(s) + 1
           \/ /\ i + 1 <= Len(s)
              /\ s[i + 1] \in SentencePunct
              /\ RunEnd(s, i + 2, WS) = Len(s) + 1

\* normalize_line that emits no blank line when a blank line flushes the buffer
normalize_line_blank_lost(st, line) ==
    LET stripped == rstrip(line) IN
    IF stripped = <<>>
    THEN [merged |-> IF st.buffer # <<>> THEN Append(st.merged, strip(st.buffer))
                     ELSE Append(st.merged, <<>>),
          buffer |-> <<>>]
    ELSE IF LooksTerminated(stripped)
    THEN IF st.buffer # <<>>
         THEN [merged |-> Append(st.merged, strip(st.buffer \o <<" ">> \o stripped)),
               buffer |-> <<>>]
         ELSE [merged |-> Append(st.merged, stripped), buffer |-> <<>>]
    ELSE [merged |-> st.merged,
          buffer |-> IF st.buffer # <<>> THEN strip(st.buffer \o <<" ">> \o stripped)
                     ELSE stripped]

\* the loop body of normalize_text for one line; st = [merged, buffer]
normalize_line(st, line) ==
    LET stripped == rstrip(line) IN
    IF stripped = <<>>
    THEN [merged |-> (IF st.buffer # <<>> THEN Append(st.merged, strip(st.buffer))
                      ELSE st.merged) \o << <<>> >>,
          buffer |-> <<>>]
    ELSE IF LooksTerminated(stripped)
    THEN IF st.buffer # <<>>
         THEN [merged |-> Append(st.merged, strip(st.buffer \o <<" ">> \o stripped)),
               buffer |-> <<>>]
         ELSE [merged |-> Append(st.merged, stripped), buffer |-> <<>>]
    ELSE [merged |-> st.merged,
          buffer |-> IF st.buffer # <<>> THEN strip(st.buffer \o <<" ">> \o stripped)
                     ELSE stripped]

RECURSIVE normalize_loop(_, _)
normalize_loop(st, lines) ==
    IF lines = <<>> THEN st
    ELSE normalize_loop(normalize_line(st, Head(lines)), Tail(lines))

normalize_text(raw) ==
    LET text == replace_cr(replace_crlf(raw))
        lines == split(text, "\n")
        st == normalize_loop([merged |-> <<>>, buffer |-> <<>>], lines)
        merged == IF st.buffer # <<>> THEN Append(st.merged, strip(st.buffer))
                  ELSE st.merged
    IN  join(merged, <<"\n">>)

----------------------------------------------------------------------------
(* remove_heading                                                          *)

headings ==
    << <<"R","e","f","e","r","e","n","c","e","s">>,
       <<"R","e","f","e","r","e","n","t","i","e","s">>,
       <<"R","e","f","e","r","e","n","c","e">>,
       <<"C","i","t","a","t","i","o","n","s">>,
       <<"B","i","b","l","i","o","g","r","a","p","h","y">>,
       <<"L","i","t","e","r","a","t","u","r","e"," ","C","i","t","e","d">>,
       <<"S","o","u","r","c","e","s">>,
       <<"W","o","r","k"," ","c","i","t","e","d">> >>

\* heading h at position q followed by \s*$ (greedy): the end of the match
\* (the position after its last character), 0 when there is none
heading_alt_end(text, q, h) ==
    IF LitAtCI(text, q, h)
    THEN LET r == q + Len(h)
             ends == {v \in r..RunEnd(text, r, WS) : AtLineEnd(text, v)}
         IN  IF ends = {} THEN 0 ELSE Max(ends)
    ELSE 0

\* the alternation (?:References|Referenties|...) tried in its written order
RECURSIVE first_heading_end(_, _, _)
first_heading_end(text, q, k) ==
    IF k > Len(headings) THEN 0
    ELSE LET e == heading_alt_end(text, q, headings[k])
         IN  IF e # 0 THEN e ELSE first_heading_end(text, q, k + 1)

\* ^\s*(?:...)\s*$ with re.IGNORECASE | re.MULTILINE tried at position p
heading_match_end(text, p) ==
    IF ~AtLineStart(text, p) THEN 0
    ELSE LET qs == {q \in p..RunEnd(text, p, WS) : first_heading_end(text, q, 1) # 0}
         IN  IF qs = {} THEN 0 ELSE first_heading_end(text, Max(qs), 1)

\* pattern.sub("", text), scanning from position pos
RECURSIVE heading_sub(_, _)
heading_sub(text, pos) ==
    LET starts == {p \in pos..Len(text) : heading_match_end(text, p) # 0}
    IN  IF starts = {} THEN From(text, pos)
        ELSE LET p == Min(starts)
             IN  SubSeq(text, pos, p - 1) \o heading_sub(text, heading_match_end(text, p))

remove_heading(text) == heading_sub(text, 1)

----------------------------------------------------------------------------
(* split_references                                                        *)

\* the end of the line that holds position p: the position of its line break
LineEnd(text, p) ==
    Min({k \in p..(Len(text) + 1) : k = Len(text) + 1 \/ text[k] = "\n"})

\* the lookahead [A-Z][a-z]+, .*?\(\d{4}\) at position p
author_year_at(text, p) ==
    /\ p <= Len(text)
    /\ text[p] \in Upper
    /\ \E k \in (p + 1)..(RunEnd(text, p + 1, Lower) - 1) :
          /\ LitAt(text, k + 1, <<",", " ">>)
          /\ \E m \in (k + 3)..LineEnd(text, k + 3) :
                /\ m + 5 <= Len(text)
                /\ text[m] = "("
                /\ \A d \in 1..4 : text[m + d] \in Digit
                /\ text[m + 5] = ")"

\* author_year_pattern.sub('\n', text), scanning from position pos: a line
\* break before every match
RECURSIVE author_year_sub(_, _)
author_year_sub(text, pos) ==
    LET starts == {p \in pos..Len(text) : AtLineStart(text, p) /\ author_year_at(text, p)}
    IN  IF starts = {} THEN From(text, pos)
        ELSE LET p == Min(starts)
             IN  SubSeq(text, pos, p - 1) \o <<"\n", text[p]>> \o author_year_sub(text, p + 1)

\* one or more digits from position p: the position after them, 0 when none
digits_end(text, p) ==
    LET e == RunEnd(text, p, Digit) IN IF p <= Len(text) /\ e > p THEN e ELSE 0

\* \s+ from position p: the position after the run, 0 when it is empty
spaces_end(text, p) ==
    LET e == RunEnd(text, p, WS) IN IF p <= Len(text) /\ e > p THEN e ELSE 0

\* ^(?:\[\d+\]|\d+\.)\s+
bracket_or_dot_end(text, p) ==
    IF ~AtLineStart(text, p) \/ p > Len(text) THEN 0
    ELSE IF text[p] = "[" /\ digits_end(text, p + 1) # 0
                          /\ LitAt(text, digits_end(text, p + 1), <<"]">>)
                          /\ spaces_end(text, digits_end(text, p + 1) + 1) # 0
    THEN spaces_end(text, digits_end(text, p + 1) + 1)
    ELSE IF digits_end(text, p) # 0 /\ LitAt(text, digits_end(text, p), <<".">>)
    THEN spaces_end(text, digits_end(text, p) + 1)
    ELSE 0

\* ^(?:\d+\))\s+
paren_end(text, p) ==
    IF ~AtLineStart(text, p) \/ p > Len(text) THEN 0
    ELSE IF digits_end(text, p) # 0 /\ LitAt(text, digits_end(text, p), <<")">>)
    THEN spaces_end(text, digits_end(text, p) + 1)
    ELSE 0

\* \n{2,}
blank_gap_end(text, p) ==
    LET e == RunEnd(text, p, {"\n"}) IN IF p <= Len(text) /\ e >= p + 2 THEN e ELSE 0

\* splitter_end without the "n) " alternative
splitter_end_no_paren(text, p) ==
    IF bracket_or_dot_end(text, p) # 0 THEN bracket_or_dot_end(text, p)
    ELSE blank_gap_end(text, p)

\* the splitter's alternation, tried in its written order at position p
splitter_end(text, p) ==
    IF bracket_or_dot_end(text, p) # 0 THEN bracket_or_dot_end(text, p)
    ELSE IF paren_end(text, p) # 0 THEN paren_end(text, p)
    ELSE blank_gap_end(text, p)

\* splitter.split(text), scanning from position pos
RECURSIVE splitter_split(_, _)
splitter_split(text, pos) ==
    LET starts == {p \in pos..Len(text) : splitter_end(text, p) # 0}
    IN  IF starts = {} THEN << From(text, pos) >>
        ELSE LET p == Min(starts)
             IN  << SubSeq(text, pos, p - 1) >> \o splitter_split(text, splitter_end(text, p))

\* re.fullmatch(r'\[\d+\]|\d+\.|\d+\)', part)
bare_delimiter(part) ==
    LET n == Len(part) IN
    \/ /\ n >= 3 /\ part[1] = "[" /\ part[n] = "]"
       /\ \A k \in 2..(n - 1) : part[k] \in Digit
    \/ /\ n >= 2 /\ part[n] \in {".", ")"}
       /\ \A k \in 1..(n - 1) : part[k] \in Digit

\* the filtering loop over the parts
RECURSIVE keep_parts(_)
keep_parts(parts) ==
    IF parts = <<>> THEN <<>>
    ELSE LET part == strip(Head(parts))
         IN  (IF part = <<>> \/ bare_delimiter(part) THEN <<>> ELSE <<part>>)
             \o keep_parts(Tail(parts))

split_references(text) ==
    keep_parts(splitter_split(author_year_sub(text, 1), 1))

----------------------------------------------------------------------------
(* extract_doi                                                             *)

\* [-._;()/:A-Z0-9] under re.I
DoiSuffixChar == {"-", ".", "_", ";", "(", ")", "/", ":"} \cup AlNum

\* (10\.\d{4,9}/[-._;()/:A-Z0-9]+) tried at position p: the end of the
\* match, 0 when it fails
doi_match_end(text, p) ==
    IF LitAt(text, p, <<"1", "0", ".">>)
    THEN LET ns == {n \in 4..9 : /\ p + 3 + n <= Len(text)
                                 /\ \A d \in 0..(n - 1) : text[p + 3 + d] \in Digit
                                 /\ text[p + 3 + n] = "/"
                                 /\ RunEnd(text, p + 4 + n, DoiSuffixChar) > p + 4 + n}
         IN  IF ns = {} THEN 0 ELSE RunEnd(text, p + 4 + Max(ns), DoiSuffixChar)
    ELSE 0

\* Python's None for an absent DOI; a DOI that is found is never empty
None == <<>>

extract_doi(text) ==
    LET starts == {p \in 1..Len(text) : doi_match_end(text, p) # 0}
    IN  IF starts = {} THEN None
        ELSE rstrip_chars(SubSeq(text, Min(starts), doi_match_end(text, Min(starts)) - 1),
                          {" ", ".", ";", ","})

----------------------------------------------------------------------------
(* levenshtein and is_title_in_reference                                   *)

Min3(a, b, c) == Min({a, b, c})

\* the inner loop: current_row for character c1, from column j on (a cell is
\* never negative: the test on it only makes the cell be computed before
\* the next column is)
RECURSIVE lev_inner(_, _, _, _, _)
lev_inner(c1, s2, previous_row, current_row, j) ==
    IF j > Len(s2) THEN current_row
    ELSE LET insertions == previous_row[j + 1] + 1
             deletions == current_row[j] + 1
             substitutions == previous_row[j] + (IF c1 # s2[j] THEN 1 ELSE 0)
             cell == Min3(insertions, deletions, substitutions)
         IN  IF cell >= 0
             THEN lev_inner(c1, s2, previous_row, Append(current_row, cell), j + 1)
             ELSE current_row

\* the outer loop: the row after the characters i.. of s1 (a row is never
\* empty: the test on it only makes the row be computed before the next is)
RECURSIVE lev_outer(_, _, _, _)
lev_outer(s1, s2, previous_row, i) ==
    IF i > Len(s1) THEN previous_row
    ELSE LET current_row == lev_inner(s1[i], s2, previous_row, <<i>>, 1)
         IN  IF Len(current_row) > 0
             THEN lev_outer(s1, s2, current_row, i + 1)
             ELSE previous_row

RECURSIVE levenshtein(_, _)
levenshtein(s1, s2) ==
    IF Len(s1) < Len(s2) THEN levenshtein(s2, s1)
    ELSE IF Len(s2) = 0 THEN Len(s1)
    ELSE LET last == lev_outer(s1, s2, [k \in 1..(Len(s2) + 1) |-> k - 1], 1)
         IN  last[Len(last)]

\* normalize = lambda s: re.sub(r'\W+', '', s).lower()
normalize(s) == lower_str(SelectSeq(s, LAMBDA c : c \in Word))

\* ct in rt
contains(rt, ct) ==
    \E i \in 0..(Len(rt) - Len(ct)) : SubSeq(rt, i + 1, i + Len(ct)) = ct

\* within_tolerance that allows one edit more than the tolerance
within_tolerance_off_by_one(distance, tolerance) == distance <= tolerance + 1

\* within_tolerance that accepts only a distance equal to the tolerance
within_tolerance_exact(distance, tolerance) == distance = tolerance

\* the comparison of an edit distance with the tolerance
within_tolerance(distance, tolerance) == distance <= tolerance

\* returns the pair (matched, wildcard_used)
is_title_in_reference(crossref_title, ref_text, tolerance) ==
    LET ct == normalize(crossref_title)
        rt == normalize(ref_text)
    IN  IF contains(rt, ct) THEN <<TRUE, FALSE>>
        ELSE IF Len(ct) <= Len(rt)
        THEN IF \E i \in 0..(Len(rt) - Len(ct)) :
                    within_tolerance(levenshtein(ct, SubSeq(rt, i + 1, i + Len(ct))), tolerance)
             THEN <<TRUE, TRUE>> ELSE <<FALSE, FALSE>>
        ELSE IF within_tolerance(levenshtein(ct, rt), tolerance)
             THEN <<TRUE, TRUE>> ELSE <<FALSE, FALSE>>

----------------------------------------------------------------------------
(* check_crossref and the Crossref responses                               *)

\* A JSON object as far as the script reads it: whether it has any key, and
\* its "title" key: absent ("missing"), a list of strings ("list") or one
\* string ("str", held as a one-element sequence).
Dict(nonempty, title_kind, title) ==
    [nonempty |-> nonempty, title_kind |-> title_kind, title |-> title]

EmptyDict == Dict(FALSE, "missing", <<>>)

\* The outcome of requests.get: it raises, or yields a status code and the
\* "message" of the body with its optional "items" list.
Response(raises, status_code, has_items, items, message) ==
    [raises |-> raises, status_code |-> status_code,
     has_items |-> has_items, items |-> items, message |-> message]

\* the URL chosen by check_crossref for a query
crossref_request(query) ==
    IF query # <<>> /\ LitAt(query, 1, <<"1", "0", ".">>)
    THEN [url |-> "works/{query}", query |-> query]
    ELSE [url |-> "works?query.title", query |-> query]

\* check_crossref after the request: raised, or the entry returned (EmptyDict
\* stands for None, both being falsy)
check_crossref(resp) ==
    IF resp.raises THEN [raised |-> TRUE, entry |-> EmptyDict]
    ELSE IF resp.status_code = 200
    THEN LET picked == IF resp.has_items /\ resp.items # <<>>
                       THEN resp.items[1] ELSE resp.message
         IN  [raised |-> FALSE, entry |-> IF picked.nonempty THEN picked ELSE EmptyDict]
    ELSE [raised |-> FALSE, entry |-> EmptyDict]

\* entry.get("title", [""])[0] if isinstance(entry.get("title"), list)
\*                             else entry.get("title", "")
entry_title(entry) ==
    IF entry.title_kind = "list"
    THEN IF entry.title = <<>> THEN [raised |-> TRUE, title |-> <<>>]
         ELSE [raised |-> FALSE, title |-> entry.title[1]]
    ELSE IF entry.title_kind = "str" THEN [raised |-> FALSE, title |-> entry.title[1]]
    ELSE [raised |-> FALSE, title |-> <<>>]

----------------------------------------------------------------------------
(* The script's state                                                      *)

VARIABLES
    wildcard,          \* st.session_state["wildcard"]
    input_text,        \* the pasted text
    text_no_heading,   \* remove_heading's result
    normalized,        \* normalize_text's result
    references,        \* the list of reference strings
    idx,               \* number of references the loop has gone through
    with_doi, no_doi, correct, incorrect,
    no_doi_list, incorrect_list,
    calls,             \* the lookups sent to Crossref, with their responses
    outcome,           \* the result message written for each reference
    report,            \* the counts of the summary report
    pc,                \* where the script run stands
    renormalized,      \* normalize_text applied to its own result
    convention, entries,                                \* a rendered list
    crossref_title, ref_text, tolerance, match_result   \* one matcher call

vars == <<wildcard, input_text, text_no_heading, normalized, references, idx,
          with_doi, no_doi, correct, incorrect, no_doi_list, incorrect_list,
          calls, outcome, report, pc, renormalized, convention, entries,
          crossref_title, ref_text, tolerance, match_result>>

pasteVars == <<input_text, text_no_heading, normalized, references>>
loopVars == <<idx, with_doi, no_doi, correct, incorrect, no_doi_list,
              incorrect_list, calls, outcome>>
otherVars == <<renormalized, convention, entries, crossref_title, ref_text,
               tolerance, match_result>>

total == Len(references)

MsgNoDoi == "No DOI found"
MsgNotFound == "Not found in Crossref"
MsgMismatch == "Title mismatch"
MsgMatch == "Title matches database"
MsgTypoMatch == "Title matches (Typo tolerance applied)"

NoReport == [with_doi_count |-> 0, total_references |-> 0,
             total_verified_references |-> 0, correct_count |-> 0,
             incorrect_count |-> 0, no_doi_count |-> 0, all_correct |-> FALSE]

\* largest typo tolerance explored (the form allows 0..20)
MaxTolerance == 2

----------------------------------------------------------------------------
(* The paste branch and the loop body                                      *)

\* paste_branch with the normalizer run before the heading stripper
paste_branch_normalize_first(text) ==
    LET norm == normalize_text(text)
        no_heading == remove_heading(norm)
    IN  [text_no_heading |-> no_heading, normalized |-> norm,
         references |-> split_references(no_heading)]

\* text_no_heading, normalized and references of the paste branch
paste_branch(text) ==
    LET no_heading == remove_heading(text)
        norm == normalize_text(no_heading)
    IN  [text_no_heading |-> no_heading, normalized |-> norm,
         references |-> split_references(norm)]

\* the counters and lists of the loop, as one record
Run == [with_doi |-> with_doi, no_doi |-> no_doi, correct |-> correct,
        incorrect |-> incorrect, no_doi_list |-> no_doi_list,
        incorrect_list |-> incorrect_list, calls |-> calls, outcome |-> outcome,
        raised |-> FALSE]

\* the else branch of "if doi"
no_doi_branch(run, ref) ==
    [run EXCEPT !.outcome = Append(@, MsgNoDoi),
                !.no_doi = @ + 1,
                !.no_doi_list = Append(@, ref)]

\* not_found_branch without "incorrect += 1"
not_found_branch_uncounted(run, ref) ==
    [run EXCEPT !.outcome = Append(@, MsgNotFound),
                !.incorrect_list = Append(@, ref)]

\* the else branch of "if entry"
not_found_branch(run, ref) ==
    [run EXCEPT !.outcome = Append(@, MsgNotFound),
                !.incorrect = @ + 1,
                !.incorrect_list = Append(@, ref)]

\* title_branch that counts a mismatch as correct
title_branch_mismatch_correct(run, ref, title, tol) ==
    LET res == is_title_in_reference(title, ref, tol)
    IN  IF res[1]
        THEN [run EXCEPT !.outcome = Append(@, IF res[2] THEN MsgTypoMatch ELSE MsgMatch),
                         !.correct = @ + 1]
        ELSE [run EXCEPT !.outcome = Append(@, MsgMismatch),
                         !.correct = @ + 1]

\* the title check of an entry that was found
title_branch(run, ref, title, tol) ==
    LET res == is_title_in_reference(title, ref, tol)
        matched == res[1]
        wildcard_used == res[2]
    IN  IF matched
        THEN [run EXCEPT !.outcome = Append(@, IF wildcard_used THEN MsgTypoMatch
                                               ELSE MsgMatch),
                         !.correct = @ + 1]
        ELSE [run EXCEPT !.outcome = Append(@, MsgMismatch),
                         !.incorrect = @ + 1,
                         !.incorrect_list = Append(@, ref)]

\* send_lookup that answers a DOI already looked up from a cache
send_lookup_cached(run, k, doi, resp) ==
    IF \E j \in 1..Len(run.calls) : run.calls[j].request.query = doi
    THEN run
    ELSE [run EXCEPT !.calls = Append(@, [ref_index |-> k,
                                          request |-> crossref_request(doi),
                                          response |-> resp])]

\* entry = check_crossref(doi): the request goes out and resp comes back
send_lookup(run, k, doi, resp) ==
    [run EXCEPT !.calls = Append(@, [ref_index |-> k,
                                     request |-> crossref_request(doi),
                                     response |-> resp])]

\* the loop body for reference number k, when the lookup (if any) is
\* answered by resp
process_reference(run, k, ref, resp, tol) ==
    LET doi == extract_doi(ref) IN
    IF doi # None
    THEN LET counted == [run EXCEPT !.with_doi = @ + 1]
             sent == send_lookup(counted, k, doi, resp)
             looked == check_crossref(resp)
         IN  IF looked.raised THEN [sent EXCEPT !.raised = TRUE]
             ELSE IF looked.entry.nonempty
             THEN IF entry_title(looked.entry).raised
                  THEN [sent EXCEPT !.raised = TRUE]
                  ELSE title_branch(sent, ref, entry_title(looked.entry).title, tol)
             ELSE not_found_branch(sent, ref)
    ELSE no_doi_branch(run, ref)

----------------------------------------------------------------------------
(* Inputs of the explored runs                                             *)

\* "References\n1. Smith, J. (2020). A Study of Widgets. 10.1000/xyz123.\n
\*  2. Jones, K. Nonexistent Paper. 10.9999/fake000."
E2EText == <<"R","e","f","e","r","e","n","c","e","s","\n","1","."," ","S","m","i","t","h",","," ","J","."," ","(","2","0","2","0",")","."," ","A"," ","S","t","u","d","y"," ","o","f"," ","W","i","d","g","e","t","s","."," ","1","0",".","1","0","0","0","/","x","y","z","1","2","3",".","\n","2","."," ","J","o","n","e","s",","," ","K","."," ","N","o","n","e","x","i","s","t","e","n","t"," ","P","a","p","e","r","."," ","1","0",".","9","9","9","9","/","f","a","k","e","0","0","0",".">>

\* "Doe, J.,\nReferences\nGadgets 10.1000/g1."
WrappedText == <<"D","o","e",","," ","J",".",",","\n","R","e","f","e","r","e","n","c","e","s","\n","G","a","d","g","e","t","s"," ","1","0",".","1","0","0","0","/","g","1",".">>

\* "Sources\n[1] Roe. Widgetz. 10.1000/w1\n[2] No identifier here.\n
\*  [3] Poe. Widgets. doi:10.1000/w1."
MixedText == <<"S","o","u","r","c","e","s","\n","[","1","]"," ","R","o","e","."," ","W","i","d","g","e","t","z","."," ","1","0",".","1","0","0","0","/","w","1","\n","[","2","]"," ","N","o"," ","i","d","e","n","t","i","f","i","e","r"," ","h","e","r","e",".","\n","[","3","]"," ","P","o","e","."," ","W","i","d","g","e","t","s","."," ","d","o","i",":","1","0",".","1","0","0","0","/","w","1",".">>

\* "Bibliography\n"
HeadingOnlyText == <<"B","i","b","l","i","o","g","r","a","p","h","y","\n">>

\* " \n"
BlankText == <<" ","\n">>

RunTexts == {E2EText, WrappedText, MixedText, HeadingOnlyText, BlankText}

StudyTitle == <<"A"," ","S","t","u","d","y"," ","o","f"," ","W","i","d","g","e","t","s">>
WidgetsTitle == <<"W","i","d","g","e","t","s">>
GadgetsTitle == <<"G","a","d","g","e","t","s">>
PunctTitle == <<"?","!">>

Titles == {StudyTitle, WidgetsTitle, GadgetsTitle, PunctTitle, <<>>}

Found(entry) == Response(FALSE, 200, FALSE, <<>>, entry)

Responses ==
    {Response(TRUE, 0, FALSE, <<>>, EmptyDict)}              \* requests.get raises
    \cup {Response(FALSE, 404, FALSE, <<>>, EmptyDict)}      \* non-200
    \cup {Found(EmptyDict)}                                  \* 200, empty message
    \cup {Found(Dict(TRUE, "list", <<t>>)) : t \in Titles}   \* "title": [t]
    \cup {Found(Dict(TRUE, "list", <<>>))}                   \* "title": []
    \cup {Found(Dict(TRUE, "missing", <<>>))}                \* no "title" key
    \cup {Found(Dict(TRUE, "str", <<WidgetsTitle>>))}        \* "title": t
    \cup {Response(FALSE, 200, TRUE, <<Dict(TRUE, "list", <<GadgetsTitle>>)>>,
                   Dict(TRUE, "missing", <<>>))}             \* "items": [entry]

----------------------------------------------------------------------------
(* The script run                                                          *)

Init ==
    /\ wildcard = 0
    /\ input_text = <<>> /\ text_no_heading = <<>> /\ normalized = <<>>
    /\ references = <<>>
    /\ idx = 0
    /\ with_doi = 0 /\ no_doi = 0 /\ correct = 0 /\ incorrect = 0
    /\ no_doi_list = <<>> /\ incorrect_list = <<>>
    /\ calls = <<>> /\ outcome = <<>>
    /\ report = NoReport
    /\ pc = "form"
    /\ renormalized = <<>>
    /\ convention = "none" /\ entries = <<>>
    /\ crossref_title = <<>> /\ ref_text = <<>> /\ tolerance = 0
    /\ match_result = <<FALSE, FALSE>>

\* "Apply typo tolerance" is submitted with the value new_wc
ApplyTolerance(new_wc) ==
    /\ pc = "form"
    /\ wildcard' = new_wc
    /\ UNCHANGED <<pasteVars, loopVars, otherVars, report, pc>>

\* "Check Pasted References" is submitted with the given text
SubmitPaste(text) ==
    /\ pc = "form"
    /\ input_text' = text
    /\ IF strip(text) # <<>>
       THEN /\ text_no_heading' = paste_branch(text).text_no_heading
            /\ normalized' = paste_branch(text).normalized
            /\ references' = paste_branch(text).references
            /\ pc' = IF Len(paste_branch(text).references) = 0
                     THEN "no_references" ELSE "loop"
       ELSE /\ pc' = "info"
            /\ UNCHANGED <<text_no_heading, normalized, references>>
    /\ UNCHANGED <<wildcard, loopVars, otherVars, report>>

\* one iteration of the loop over the references
ProcessReference(resp) ==
    /\ pc = "loop"
    /\ idx < total
    /\ LET run == process_reference(Run, idx + 1, references[idx + 1], resp, wildcard)
       IN  /\ with_doi' = run.with_doi
           /\ no_doi' = run.no_doi
           /\ correct' = run.correct
           /\ incorrect' = run.incorrect
           /\ no_doi_list' = run.no_doi_list
           /\ incorrect_list' = run.incorrect_list
           /\ calls' = run.calls
           /\ outcome' = run.outcome
           /\ idx' = IF run.raised THEN idx ELSE idx + 1
           /\ pc' = IF run.raised THEN "aborted" ELSE "loop"
    /\ UNCHANGED <<wildcard, pasteVars, otherVars, report>>

\* the summary report after the loop
SummaryReport ==
    /\ pc = "loop"
    /\ idx = total
    /\ report' = [with_doi_count |-> with_doi,
                  total_references |-> total,
                  total_verified_references |-> IF with_doi > 0 THEN with_doi ELSE 1,
                  correct_count |-> correct,
                  incorrect_count |-> incorrect,
                  no_doi_count |-> Len(no_doi_list),
                  all_correct |-> (incorrect = 0)]
    /\ pc' = "summary"
    /\ UNCHANGED <<wildcard, pasteVars, loopVars, otherVars>>

Next ==
    \/ \E new_wc \in 0..MaxTolerance : ApplyTolerance(new_wc)
    \/ \E text \in RunTexts : SubmitPaste(text)
    \/ \E resp \in Responses : ProcessReference(resp)
    \/ SummaryReport

Spec == Init /\ [][Next]_vars

----------------------------------------------------------------------------
(* Properties of the script run                                            *)

InRun == pc \in {"loop", "summary", "aborted"}

\* the lookups sent for reference number k
CallsOf(k) == {j \in 1..Len(calls) : calls[j].ref_index = k}

ClassOf(msg) ==
    CASE msg = MsgNoDoi -> "NoIdentifier"
      [] msg = MsgNotFound -> "NotFoundInMetadataSource"
      [] msg = MsgMismatch -> "TitleMismatch"
      [] msg \in {MsgMatch, MsgTypoMatch} -> "Verified"

\* the classification that identifier presence, record presence and match
\* result give to the processed reference number k
ExpectedClass(k) ==
    IF extract_doi(references[k]) = None THEN "NoIdentifier"
    ELSE LET resp == calls[CHOOSE j \in CallsOf(k) : TRUE].response
             entry == check_crossref(resp).entry
         IN  IF ~entry.nonempty THEN "NotFoundInMetadataSource"
             ELSE IF is_title_in_reference(entry_title(entry).title,
                                           references[k], wildcard)[1]
             THEN "Verified" ELSE "TitleMismatch"

\* the processed references whose classification is in classes, in order
RefsClassified(classes) ==
    LET ks == SelectSeq([k \in 1..idx |-> k], LAMBDA k : ClassOf(outcome[k]) \in classes)
    IN  [i \in 1..Len(ks) |-> references[ks[i]]]

\* the lookup answers of the end-to-end scenario
E2EScenario ==
    /\ input_text = E2EText
    /\ wildcard = 0
    /\ Len(calls) = 2
    /\ check_crossref(calls[1].response).entry.nonempty
    /\ ~entry_title(check_crossref(calls[1].response).entry).raised
    /\ entry_title(check_crossref(calls[1].response).entry).title = StudyTitle
    /\ ~check_crossref(calls[2].response).raised
    /\ ~check_crossref(calls[2].response).entry.nonempty

\* C1: every processed reference has exactly one classification, the one
\* given by identifier presence, record presence and match result; the
\* counters and lists follow the classification; the end-to-end scenario
\* ends with total=2, withIdentifier=2, verified=1, mismatched=1,
\* noIdentifier=0.
C1_Classification ==
    InRun =>
      /\ Len(outcome) = idx
      /\ \A k \in 1..idx : ClassOf(outcome[k]) = ExpectedClass(k)
      /\ no_doi_list = RefsClassified({"NoIdentifier"})
      /\ no_doi = Len(no_doi_list)
      /\ incorrect_list = RefsClassified({"NotFoundInMetadataSource", "TitleMismatch"})
      /\ incorrect = Len(incorrect_list)
      /\ correct = Len(RefsClassified({"Verified"}))
      /\ (pc = "summary" /\ E2EScenario) =>
            /\ report.total_references = 2
            /\ report.with_doi_count = 2
            /\ report.correct_count = 1
            /\ report.incorrect_count = 1
            /\ report.no_doi_count = 0
            /\ outcome = <<MsgMatch, MsgNotFound>>

\* the end-to-end scenario has run to its summary
C1_Witness ==
    /\ pc = "summary"
    /\ E2EScenario
    /\ report.correct_count = 1

\* C2: between iterations and at the end of the run, with_doi + no_doi is
\* the number of processed references, correct + incorrect = with_doi, the
\* lists are as long as their counters, the counters never decrease, and at
\* the summary with_doi + no_doi = total.
C2_Counters ==
    /\ [](pc \in {"loop", "summary"} =>
            /\ idx \in 0..total
            /\ with_doi + no_doi = idx
            /\ correct + incorrect = with_doi
            /\ Len(incorrect_list) = incorrect
            /\ Len(no_doi_list) = no_doi
            /\ (pc = "summary" => with_doi + no_doi = total))
    /\ [][/\ with_doi' >= with_doi /\ no_doi' >= no_doi
          /\ correct' >= correct /\ incorrect' >= incorrect]_vars

\* a finished run that used every counter
C2_Witness ==
    /\ pc = "summary"
    /\ no_doi > 0 /\ correct > 0 /\ incorrect > 0
    /\ with_doi + no_doi = total

\* C3: a reference with a DOI that went through the loop has exactly one
\* lookup, sent with its own DOI; a reference without DOI has none; no
\* reference ever has two; a finished run made with_doi lookups.
C3_OneLookupPerDoi ==
    InRun =>
      /\ \A k \in 1..total :
            /\ Cardinality(CallsOf(k)) <= 1
            /\ extract_doi(references[k]) = None => CallsOf(k) = {}
            /\ (k <= idx /\ extract_doi(references[k]) # None) =>
                  Cardinality(CallsOf(k)) = 1
      /\ \A j \in 1..Len(calls) :
            /\ calls[j].ref_index \in 1..total
            /\ calls[j].request = [url |-> "works/{query}",
                                   query |-> extract_doi(references[calls[j].ref_index])]
      /\ pc = "summary" => Len(calls) = with_doi

\* a finished run in which two references carried the same DOI and one none
C3_Witness ==
    /\ pc = "summary"
    /\ Len(calls) = 2
    /\ calls[1].request.query = calls[2].request.query
    /\ calls[1].ref_index # calls[2].ref_index
    /\ no_doi = 1

\* the lookup did not produce a record: requests.get raised, the status was
\* not 200, or the result was empty
LookupFailed(resp) ==
    \/ resp.raises
    \/ resp.status_code # 200
    \/ ~check_crossref(resp).entry.nonempty

\* C4: a reference whose lookup failed is classified "not found", and the
\* run is never aborted.
C4_FailuresAreLocal ==
    \A j \in 1..Len(calls) :
        LookupFailed(calls[j].response) =>
           /\ pc # "aborted"
           /\ calls[j].ref_index <= Len(outcome)
           /\ outcome[calls[j].ref_index] = MsgNotFound

\* C5 as amended: the heading stripper runs on the pasted text, the
\* normalizer on the heading stripper's output and the segmenter on the
\* normalizer's output.
C5_HeadingThenNormalize ==
    pc \in {"loop", "summary", "aborted", "no_references"} =>
      /\ text_no_heading = remove_heading(input_text)
      /\ normalized = normalize_text(text_no_heading)
      /\ references = split_references(normalized)

\* C5 as claimed: the heading stripper runs on the normalizer's output and
\* the segmenter on the heading stripper's output.
C5_NormalizeThenHeading ==
    pc \in {"loop", "summary", "aborted", "no_references"} =>
      /\ text_no_heading = remove_heading(normalize_text(input_text))
      /\ references = split_references(text_no_heading)

\* a pasted text for which the order of the two stages shows in the result
C5_Witness ==
    /\ pc = "loop"
    /\ references # split_references(remove_heading(normalize_text(input_text)))
    /\ references = split_references(normalize_text(remove_heading(input_text)))

\* the lookup returned a record whose title is missing, empty, or empty once
\* normalized
EmptyTitleRecord(resp) ==
    LET looked == check_crossref(resp) IN
    /\ ~looked.raised
    /\ looked.entry.nonempty
    /\ \/ looked.entry.title_kind = "missing"
       \/ looked.entry.title = <<>>
       \/ normalize(looked.entry.title[1]) = <<>>

\* C10: a reference whose lookup returned a record with a missing or empty
\* title is classified as verified, by an exact match.
C10_EmptyTitleVerified ==
    \A j \in 1..Len(calls) :
        EmptyTitleRecord(calls[j].response) =>
           /\ calls[j].ref_index <= Len(outcome)
           /\ outcome[calls[j].ref_index] = MsgMatch

----------------------------------------------------------------------------
(* normalize_text applied once and twice to short texts                    *)

\* longest text given to normalize_text
MaxTextLen == 5

TextAlphabet == {"a", ".", ",", " ", "\n", "\r"}

SeqsUpTo(alphabet, n) == UNION {[1..k -> alphabet] : k \in 0..n}

\* the values of the variables a specification does not use
NoRun ==
    /\ wildcard = 0
    /\ text_no_heading = <<>>
    /\ idx = 0
    /\ with_doi = 0 /\ no_doi = 0 /\ correct = 0 /\ incorrect = 0
    /\ no_doi_list = <<>> /\ incorrect_list = <<>>
    /\ calls = <<>> /\ outcome = <<>>
    /\ report = NoReport

InitNorm ==
    /\ NoRun
    /\ input_text \in SeqsUpTo(TextAlphabet, MaxTextLen)
    /\ normalized = <<>> /\ renormalized = <<>> /\ references = <<>>
    /\ pc = "raw"
    /\ convention = "none" /\ entries = <<>>
    /\ crossref_title = <<>> /\ ref_text = <<>> /\ tolerance = 0
    /\ match_result = <<FALSE, FALSE>>

Normalize ==
    /\ pc = "raw"
    /\ normalized' = normalize_text(input_text)
    /\ pc' = "normalized"
    /\ UNCHANGED <<wildcard, input_text, text_no_heading, references, loopVars,
                   report, otherVars>>

NormalizeAgain ==
    /\ pc = "normalized"
    /\ renormalized' = normalize_text(normalized)
    /\ pc' = "renormalized"
    /\ UNCHANGED <<wildcard, pasteVars, loopVars, report, convention, entries,
                   crossref_title, ref_text, tolerance, match_result>>

NextNorm == Normalize \/ NormalizeAgain

SpecNorm == InitNorm /\ [][NextNorm]_vars

\* every line of the text is blank or looks terminated
LinesTerminated(text) ==
    /\ \A i \in 1..Len(text) : text[i] # "\r"
    /\ \A i \in 1..Len(split(text, "\n")) :
          LET line == split(text, "\n")[i]
          IN  rstrip(line) = <<>> \/ LooksTerminated(rstrip(line))

\* the lines of the text, each without its trailing whitespace
LinesRstripped(text) ==
    join([i \in 1..Len(split(text, "\n")) |-> rstrip(split(text, "\n")[i])], <<"\n">>)

\* C8: normalizing a normalized text gives the same text; a text whose
\* lines are each blank or terminated comes back line for line (each line
\* without trailing whitespace), blank lines included.
C8_Idempotent ==
    /\ pc = "renormalized" => renormalized = normalized
    /\ (pc \in {"normalized", "renormalized"} /\ LinesTerminated(input_text)) =>
          /\ normalized = LinesRstripped(input_text)
          /\ LinesRstripped(input_text) = input_text => normalized = input_text

\* a wrapped line was merged across a flush at a blank line, and the result
\* was normalized again
C8_Witness ==
    /\ pc = "renormalized"
    /\ normalized # input_text
    /\ \E i \in 1..Len(split(normalized, "\n")) : split(normalized, "\n")[i] = <<>>
    /\ \E i \in 1..Len(split(normalized, "\n")) :
          /\ split(normalized, "\n")[i] # <<>>
          /\ ~LooksTerminated(split(normalized, "\n")[i])

----------------------------------------------------------------------------
(* split_references applied to consistently delimited lists                *)

\* longest list of entries rendered
MaxEntries == 3

Conventions == {"bracket", "dot", "paren", "blank"}

\* single-line entries: trimmed, not empty, not a bare delimiter token and
\* not starting with a numbering delimiter of their own
EntryPool ==
    { <<"A","b"," ","c",".">>,
      <<"A","a",","," ","B"," ","(","1","9","9","9",")","."," ","C">>,
      <<"x"," ","2","."," ","y">>,
      <<"7"," ","[","3","]"," ","z">>,
      <<"(","1",")"," ","q">>,
      <<"1","0",".","1","0","0","0","/","x","1">> }

DigitSeq == <<"0","1","2","3","4","5","6","7","8","9">>

\* the decimal numeral of n
Numeral(n) ==
    IF n < 10 THEN <<DigitSeq[n + 1]>>
    ELSE <<DigitSeq[(n \div 10) + 1], DigitSeq[(n % 10) + 1]>>

\* the delimiter that precedes entry number n
Delimiter(conv, n) ==
    CASE conv = "bracket" -> <<"[">> \o Numeral(n) \o <<"]", " ">>
      [] conv = "dot" -> Numeral(n) \o <<".", " ">>
      [] conv = "paren" -> Numeral(n) \o <<")", " ">>
      [] conv = "blank" -> <<>>

\* the list es written under one convention, numbered from first
Render(conv, es, first) ==
    join([i \in 1..Len(es) |-> Delimiter(conv, first + i - 1) \o es[i]],
         IF conv = "blank" THEN <<"\n", "\n">> ELSE <<"\n">>)

InitSeg ==
    /\ NoRun
    /\ convention \in Conventions
    /\ entries \in UNION {[1..n -> EntryPool] : n \in 1..MaxEntries}
    /\ \E first \in {1, 9} : input_text = Render(convention, entries, first)
    /\ normalized = <<>> /\ renormalized = <<>> /\ references = <<>>
    /\ pc = "rendered"
    /\ crossref_title = <<>> /\ ref_text = <<>> /\ tolerance = 0
    /\ match_result = <<FALSE, FALSE>>

Segment ==
    /\ pc = "rendered"
    /\ references' = split_references(input_text)
    /\ pc' = "segmented"
    /\ UNCHANGED <<wildcard, input_text, text_no_heading, normalized, loopVars,
                   report, otherVars>>

NextSeg == Segment

SpecSeg == InitSeg /\ [][NextSeg]_vars

\* C9: a list of N entries under one convention is split into exactly those
\* N entries, in order, each non-empty, trimmed and not a bare delimiter.
C9_Coverage ==
    pc = "segmented" =>
      /\ Len(references) = Len(entries)
      /\ \A i \in 1..Len(references) :
            /\ i <= Len(entries) => references[i] = entries[i]
            /\ references[i] # <<>>
            /\ strip(references[i]) = references[i]
            /\ ~bare_delimiter(references[i])

\* a list of several entries numbered "n) " with a two-digit number was split
C9_Witness ==
    /\ pc = "segmented"
    /\ convention = "paren"
    /\ Len(entries) >= 2
    /\ LitAt(input_text, 1, <<"9", ")", " ">>)
    /\ Len(references) = Len(entries)

----------------------------------------------------------------------------
(* is_title_in_reference on short titles and reference texts               *)

\* longest title and longest reference text given to the matcher
MaxTitleLen == 3
MaxRefLen == 4

MatchAlphabet == {"a", "B", " "}

InitMatch ==
    /\ NoRun
    /\ input_text = <<>>
    /\ normalized = <<>> /\ renormalized = <<>> /\ references = <<>>
    /\ pc = "call"
    /\ convention = "none" /\ entries = <<>>
    /\ crossref_title \in SeqsUpTo(MatchAlphabet, MaxTitleLen)
    /\ ref_text \in SeqsUpTo(MatchAlphabet, MaxRefLen)
    /\ tolerance = 0
    /\ match_result = <<FALSE, FALSE>>

\* the matcher is called with the current tolerance
CheckTitle ==
    /\ pc = "call"
    /\ match_result' = is_title_in_reference(crossref_title, ref_text, tolerance)
    /\ pc' = "returned"
    /\ UNCHANGED <<wildcard, pasteVars, loopVars, report, renormalized, convention,
                   entries, crossref_title, ref_text, tolerance>>

\* the same pair is matched again with a larger tolerance
RaiseTolerance(t2) ==
    /\ pc = "returned"
    /\ t2 > tolerance
    /\ tolerance' = t2
    /\ match_result' = is_title_in_reference(crossref_title, ref_text, t2)
    /\ UNCHANGED <<wildcard, pasteVars, loopVars, report, renormalized, convention,
                   entries, crossref_title, ref_text, pc>>

NextMatch ==
    \/ CheckTitle
    \/ \E t2 \in 1..MaxTolerance : RaiseTolerance(t2)

SpecMatch == InitMatch /\ [][NextMatch]_vars

\* the normalized title is an exact substring of the normalized reference
ExactSubstring == contains(normalize(ref_text), normalize(crossref_title))

\* C6: with tolerance 0 the pair is matched exactly when the normalized
\* title is a substring of the normalized reference text and the tolerance
\* is never reported as used; it is reported as used only with a positive
\* tolerance and without exact substring.
C6_ExactAtZero ==
    pc = "returned" =>
      /\ tolerance = 0 => match_result = <<ExactSubstring, FALSE>>
      /\ match_result[2] => (tolerance > 0 /\ ~ExactSubstring /\ match_result[1])
      /\ ExactSubstring => match_result = <<TRUE, FALSE>>

\* a pair one edit away from a match was rejected with tolerance 0
C6_Witness ==
    /\ pc = "returned"
    /\ tolerance = 0
    /\ match_result = <<FALSE, FALSE>>
    /\ normalize(crossref_title) # <<>>
    /\ is_title_in_reference(crossref_title, ref_text, 1) = <<TRUE, TRUE>>

\* C7: a pair matched with some tolerance is still matched with any larger
\* tolerance.
C7_Monotone ==
    [][(pc = "returned" /\ tolerance' >= tolerance /\ match_result[1])
          => match_result'[1]]_vars

\* a pair first matched with tolerance 1 was matched again with tolerance 2
C7_Witness ==
    /\ pc = "returned"
    /\ tolerance >= 2
    /\ match_result = <<TRUE, TRUE>>
    /\ ~is_title_in_reference(crossref_title, ref_text, 0)[1]
    /\ is_title_in_reference(crossref_title, ref_text, 1)[1]

====
